---- MODULE Spec2Model ----
(***************************************************************************)
(* Tabular Q-learning trainer for tic-tac-toe (tictactoe.py): the episode  *)
(* state machine of Trainer.play_one_game, the Start/Stop handlers, the    *)
(* timer-driven loop callback, and the pure helpers they call.             *)
(*                                                                         *)
(* Tk runs everything on one thread.  Handlers (button commands, `after`   *)
(* callbacks) are dispatched by the event loop: by root.mainloop() when no *)
(* episode is on the call stack, and by the root.update() calls that       *)
(* play_one_game makes after every move.  The model keeps the call stack   *)
(* of play_one_game activations and lets a handler run exactly where the   *)
(* event loop is being pumped.                                             *)
(*                                                                         *)
(* Floating point: Q values are fixed-point integers in units of 1/Unit,   *)
(* the exploration rate in units of 1/EpsUnit; products with the decimal   *)
(* constants are exact while the result has at most 8 (resp. 5) decimals   *)
(* and are truncated beyond that.                                          *)
(***************************************************************************)
EXTENDS Integers, Sequences, FiniteSets, TLC

\* ---------------------------------------------------------------- bounds
\* play_one_game activations over a run of the model
MaxEpisodes == 2
\* further activations in the runs of SpecDeep, whose generator is narrower
MoreEpisodes == 2

\* ---------------------------------------------------------------- constants
Unit == 10 ^ 8
EpsUnit == 10 ^ 5

\* a fraction <<n, d>> of x
Times(frac, x) == (frac[1] * x) \div frac[2]

ALPHA == <<3, 10>>
GAMMA == <<9, 10>>
EPSILON_INIT == EpsUnit \div 5
MIN_EPSILON == EpsUnit \div 20
EPSILON_DECAY == <<99995, 100000>>
SAVE_INTERVAL == 500

REWARD_WIN == Unit
REWARD_DRAW == Unit \div 5
REWARD_LOSS == -Unit

None == -1
Cells == 0..8
Marks == {"X", "O", "_"}
EmptyBoard == [i \in Cells |-> "_"]

Max(a, b) == IF a >= b THEN a ELSE b

\* ---------------------------------------------------------------- randomness
\* The generator's draws are an input of the model.  A draw is a fraction
\* <<n, d>> of the range asked for; `draws` is the set of draws the generator
\* can produce in the run at hand.
Lowest == <<0, 1>>
Middle == <<1, 2>>

\* the indices random.choice may draw for a sequence of length n
RandBelow(n, draws) == {Times(d, n) : d \in draws}

\* a generator that can draw every index of every list of up to nine items
AllDraws == UNION {{<<k, n>> : k \in 0..(n - 1)} : n \in 1..9}

random_choice(seq, draws) == {seq[k + 1] : k \in RandBelow(Len(seq), draws)}

\* ---------------------------------------------------------------- helpers
lines == << <<0,1,2>>, <<3,4,5>>, <<6,7,8>>,
            <<0,3,6>>, <<1,4,7>>, <<2,5,8>>,
            <<0,4,8>>, <<2,4,6>> >>

check_win(board, symbol) ==
    \E l \in 1..Len(lines) : \A k \in 1..3 : board[lines[l][k]] = symbol

is_draw(board) == \A i \in Cells : board[i] # "_"

RECURSIVE EmptyFrom(_, _)
EmptyFrom(board, i) ==
    IF i > 8 THEN <<>>
    ELSE IF board[i] = "_" THEN <<i>> \o EmptyFrom(board, i + 1)
    ELSE EmptyFrom(board, i + 1)

\* QLearningPlayer.get_valid_actions: the Empty cells, ascending
get_valid_actions(board) == EmptyFrom(board, 0)

\* QLearningPlayer.get_state: "".join(board)
get_state(board) ==
    board[0] \o board[1] \o board[2] \o board[3] \o board[4] \o
    board[5] \o board[6] \o board[7] \o board[8]

\* f"{state}:{action}"
Key(state, action) == state \o ":" \o ToString(action)

\* dict.get(key, 0)
QGet(q, key) == IF key \in DOMAIN q THEN q[key] ELSE 0

\* dict[key] = value
QPut(q, key, value) ==
    [k \in DOMAIN q \cup {key} |-> IF k = key THEN value ELSE q[k]]

RECURSIVE MaxNext(_, _, _, _)
\* max((q.get(f"{next_state}:{a}", 0) for a in next_actions), default=0)
MaxNext(q, next_state, next_actions, k) ==
    IF Len(next_actions) = 0 THEN 0
    ELSE IF k = Len(next_actions) THEN QGet(q, Key(next_state, next_actions[k]))
    ELSE Max(QGet(q, Key(next_state, next_actions[k])),
             MaxNext(q, next_state, next_actions, k + 1))

\* update_q adding the reward to the old estimate
update_q_Accumulate(q, old_state, action, reward, next_state, next_actions) ==
    LET key == Key(old_state, action)
        old_q == QGet(q, key)
    IN  QPut(q, key, old_q + reward)

update_q(q, old_state, action, reward, next_state, next_actions) ==
    LET key == Key(old_state, action)
        old_q == QGet(q, key)
        next_q == MaxNext(q, next_state, next_actions, 1)
        new_q == old_q + Times(ALPHA, reward + Times(GAMMA, next_q) - old_q)
    IN  QPut(q, key, new_q)

\* ---------------------------------------------------------------- agent
\* the values random.random() may return, in units of 1/EpsUnit
RandomUnit == {0, EpsUnit - 1}

RECURSIVE MaxQ(_, _, _, _)
\* max(q_values) over the valid actions, missing entries counting as 0
MaxQ(q, state, actions, k) ==
    IF k = Len(actions) THEN QGet(q, Key(state, actions[k]))
    ELSE Max(QGet(q, Key(state, actions[k])), MaxQ(q, state, actions, k + 1))

\* best_actions cut down to the first action reaching max_q
best_actions_FirstOnly(q, state, actions) ==
    LET max_q == MaxQ(q, state, actions, 1)
    IN  SubSeq(SelectSeq(actions, LAMBDA a : QGet(q, Key(state, a)) = max_q), 1, 1)

best_actions(q, state, actions) ==
    LET max_q == MaxQ(q, state, actions, 1)
    IN  SelectSeq(actions, LAMBDA a : QGet(q, Key(state, a)) = max_q)

\* QLearningPlayer.choose_action when random.random() returns u: the set of
\* actions it may return
choose_action_at(board, q, explore, eps, u, draws) ==
    LET state == get_state(board)
        actions == get_valid_actions(board)
    IN  IF Len(actions) = 0 THEN {None}
        ELSE IF explore /\ u < eps
        THEN random_choice(actions, draws)
        ELSE random_choice(best_actions(q, state, actions), draws)

\* QLearningPlayer.choose_action: the set of actions it may return
choose_action(board, q, explore, eps, draws) ==
    UNION {choose_action_at(board, q, explore, eps, u, draws) : u \in RandomUnit}

\* ---------------------------------------------------------------- opponent
RECURSIVE TryComplete_MarkLeft(_, _, _, _)
\* the loop without the board[i] = "_" ahead of its return
TryComplete_MarkLeft(board, empty, k, mark) ==
    IF k > Len(empty) THEN [ret |-> None, board |-> board]
    ELSE LET i == empty[k]
             placed == [board EXCEPT ![i] = mark]
             reverted == [placed EXCEPT ![i] = "_"]
         IN  IF check_win(placed, mark)
             THEN [ret |-> i, board |-> placed]
             ELSE TryComplete_MarkLeft(reverted, empty, k + 1, mark)

RECURSIVE TryComplete(_, _, _, _)
\* for i in empty: board[i] = mark; if check_win(board, mark): board[i] = "_";
\* return i; board[i] = "_".  Yields the cell found (None if the loop runs
\* out) and the board the loop leaves behind.
TryComplete(board, empty, k, mark) ==
    IF k > Len(empty) THEN [ret |-> None, board |-> board]
    ELSE LET i == empty[k]
             placed == [board EXCEPT ![i] = mark]
             reverted == [placed EXCEPT ![i] = "_"]
         IN  IF check_win(placed, mark)
             THEN [ret |-> i, board |-> reverted]
             ELSE TryComplete(reverted, empty, k + 1, mark)

RECURSIVE FirstEmptyOf(_, _, _)
\* for i in cells: if board[i] == "_": return i
FirstEmptyOf(board, cells, k) ==
    IF k > Len(cells) THEN None
    ELSE IF board[cells[k]] = "_" THEN cells[k]
    ELSE FirstEmptyOf(board, cells, k + 1)

\* computer_move with the blocking loop ahead of the winning loop
computer_move_BlockFirst(board, symbol, player_symbol, draws) ==
    LET empty == get_valid_actions(board)
        block == TryComplete(board, empty, 1, player_symbol)
        win == TryComplete(block.board, empty, 1, symbol)
        b == win.board
        corner == FirstEmptyOf(b, <<0, 2, 6, 8>>, 1)
        side == FirstEmptyOf(b, <<1, 3, 5, 7>>, 1)
    IN  IF Len(empty) = 0 THEN {[ret |-> None, board |-> board, via |-> "none"]}
        ELSE IF block.ret # None THEN {[ret |-> block.ret, board |-> block.board, via |-> "block"]}
        ELSE IF win.ret # None THEN {[ret |-> win.ret, board |-> b, via |-> "win"]}
        ELSE IF corner # None THEN {[ret |-> corner, board |-> b, via |-> "corner"]}
        ELSE IF b[4] = "_" THEN {[ret |-> 4, board |-> b, via |-> "center"]}
        ELSE IF side # None THEN {[ret |-> side, board |-> b, via |-> "side"]}
        ELSE {[ret |-> i, board |-> b, via |-> "random"] : i \in random_choice(empty, draws)}

\* computer_move: the set of outcomes [ret, board, via] it may produce; `via`
\* names the return statement taken
computer_move(board, symbol, player_symbol, draws) ==
    LET empty == get_valid_actions(board)
        win == TryComplete(board, empty, 1, symbol)
        block == TryComplete(win.board, empty, 1, player_symbol)
        b == block.board
        corner == FirstEmptyOf(b, <<0, 2, 6, 8>>, 1)
        side == FirstEmptyOf(b, <<1, 3, 5, 7>>, 1)
    IN  IF Len(empty) = 0 THEN {[ret |-> None, board |-> board, via |-> "none"]}
        ELSE IF win.ret # None THEN {[ret |-> win.ret, board |-> win.board, via |-> "win"]}
        ELSE IF block.ret # None THEN {[ret |-> block.ret, board |-> b, via |-> "block"]}
        ELSE IF corner # None THEN {[ret |-> corner, board |-> b, via |-> "corner"]}
        ELSE IF b[4] = "_" THEN {[ret |-> 4, board |-> b, via |-> "center"]}
        ELSE IF side # None THEN {[ret |-> side, board |-> b, via |-> "side"]}
        ELSE {[ret |-> i, board |-> b, via |-> "random"] : i \in random_choice(empty, draws)}

\* ---------------------------------------------------------------- persistence
\* A file is Missing, Corrupt, or holds the data last written to it.
Missing == [kind |-> "missing"]
Corrupt == [kind |-> "corrupt"]
Saved(data) == [kind |-> "json", data |-> data]

\* load_json: the file's data, or the default when it is missing or unreadable
load_json(file, default) == IF file.kind = "json" THEN file.data ELSE default

\* save_json: the file after the full overwrite
save_json(data) == Saved(data)

DefaultStats == [games |-> 0, wins |-> 0, draws |-> 0]
EmptyTable == [k \in {} |-> 0]

\* ---------------------------------------------------------------- state
VARIABLES
    board,          \* Trainer.board (<<>> until the first reset_board)
    buttons,        \* text of the nine GUI buttons
    q_table,        \* Trainer.q_table, shared with every QLearningPlayer
    stats,          \* Trainer.stats
    running,        \* Trainer.running
    EPSILON,        \* the module-level exploration rate
    q_file,         \* player_qtable.json
    stats_file,     \* player_stats.json
    status_label,   \* text of the status label
    stats_label,    \* what the stats label shows
    stack,          \* play_one_game activations, innermost last
    after,          \* loop callbacks scheduled with root.after and not yet fired
    started,        \* play_one_game calls so far
    limit,          \* play_one_game calls the run may make
    rng,            \* the draws the random generator can produce
    probe,          \* the last direct call of a helper and its result
    ev              \* the handler or episode step that ran last

vars == <<board, buttons, q_table, stats, running, EPSILON, q_file, stats_file,
          status_label, stats_label, stack, after, started, limit, rng, probe, ev>>

\* what no handler of the trainer touches
env == <<limit, rng, probe>>

\* what the files may hold when the process starts
TrainedTable ==
    [k \in {"XXO___O__:4", "XXO_X_OO_:8"} |->
        Times(ALPHA, REWARD_WIN)]
TrainedStats == [games |-> SAVE_INTERVAL - 1, wins |-> 1, draws |-> 0]
Untrained == <<Missing, Corrupt>>
Trained == <<Saved(TrainedTable), Saved(TrainedStats)>>

\* f"Games: ... | Epsilon: {EPSILON:.3f}"
StatsText(s, eps) ==
    [games |-> s.games, wins |-> s.wins, draws |-> s.draws,
     epsilon |-> (eps * 1000 + EpsUnit \div 2) \div EpsUnit]

\* TicTacToeGUI.__init__ and Trainer.__init__
NoCall == <<>>

Start(image, episodes, draws) ==
        /\ probe = NoCall
        /\ limit = episodes
        /\ rng = draws
        /\ q_file = image[1]
        /\ stats_file = image[2]
        /\ q_table = load_json(image[1], EmptyTable)
        /\ stats = load_json(image[2], DefaultStats)
        /\ running = FALSE
        /\ EPSILON = EPSILON_INIT
        /\ board = <<>>
        /\ buttons = [i \in Cells |-> ""]
        /\ status_label = "Press Start to train vs computer."
        /\ stats_label = StatsText(load_json(image[2], DefaultStats), EPSILON_INIT)
        /\ stack = <<>>
        /\ after = 0
        /\ started = 0
        /\ ev = "init"

\* any generator, either disk image
Init == \E image \in {Untrained, Trained} : Start(image, MaxEpisodes, {Lowest, Middle})

\* a generator that always draws the lowest index, starting from the trained
\* table, over more episodes
InitDeep == Start(Trained, MaxEpisodes + MoreEpisodes, {Lowest})

\* Late in a long session: the rate has decayed to one step above its floor,
\* training is stopped and flushed, and no callback is pending.  The table is
\* cut down to the entries of TrainedTable.
LateStats == [games |-> 60 * SAVE_INTERVAL - 1, wins |-> 1, draws |-> 0]

LateSession ==
    /\ probe = NoCall
    /\ limit = MaxEpisodes
    /\ rng = {Lowest, Middle}
    /\ q_file = Saved(TrainedTable)
    /\ stats_file = Saved(LateStats)
    /\ q_table = TrainedTable
    /\ stats = LateStats
    /\ running = FALSE
    /\ EPSILON = MIN_EPSILON + 1
    /\ board = EmptyBoard
    /\ buttons = [i \in Cells |-> ""]
    /\ status_label = "Paused. Q-table and stats saved."
    /\ stats_label = StatsText(LateStats, MIN_EPSILON + 1)
    /\ stack = <<>>
    /\ after = 0
    /\ started = 0
    /\ ev = "init"

\* a fresh process, or a session that has run long
InitLate == Init \/ LateSession

Top == stack[Len(stack)]
Pop == SubSeq(stack, 1, Len(stack) - 1)
SetTop(frame) == [stack EXCEPT ![Len(stack)] = frame]

\* The event loop dispatches handlers in root.mainloop() (no episode on the
\* stack) and inside the root.update() calls of play_one_game.
Pumping == IF stack = <<>> THEN TRUE ELSE Top.pc \in {"updateA", "updateC"}

\* ---------------------------------------------------------------- episode
\* play_one_game up to the loop: a fresh player, reset_board, empty history
BeginEpisode ==
    /\ started < limit
    /\ started' = started + 1
    /\ board' = EmptyBoard
    /\ buttons' = [i \in Cells |-> ""]
    /\ stack' = Append(stack, [pc |-> "agent", history |-> <<>>, opp |-> 0])

\* loop without its test of the running flag
loop_Unchecked(isRunning) == BeginEpisode

\* Trainer.loop as called with the given value of self.running; the
\* re-scheduling after play_one_game returns is part of EndEpisode
loop(isRunning) ==
    IF ~isRunning
    THEN UNCHANGED <<board, buttons, stack, started>>
    ELSE BeginEpisode

RECURSIVE CreditAll(_, _, _, _, _)
\* for s, a in pairs: player.update_q(s, a, reward, next_state, [])
CreditAll(q, pairs, k, reward, next_state) ==
    IF k > Len(pairs) THEN q
    ELSE CreditAll(update_q(q, pairs[k][1], pairs[k][2], reward, next_state, <<>>),
                   pairs, k + 1, reward, next_state)

Reversed(seq) == [k \in 1..Len(seq) |-> seq[Len(seq) + 1 - k]]

\* for s, a in reversed(history): player.update_q(s, a, 1, state, [])
WinCredit(q, history, next_state) ==
    CreditAll(q, Reversed(history), 1, REWARD_WIN, next_state)

\* for s, a in history: player.update_q(s, a, 0.2, state, [])
DrawCredit(q, history, next_state) ==
    CreditAll(q, history, 1, REWARD_DRAW, next_state)

\* the loss credit given to every recorded pair
LossCredit_WholeHistory(q, history, next_state) ==
    CreditAll(q, Reversed(history), 1, REWARD_LOSS, next_state)

\* last_state, last_action = history[-1]; player.update_q(..., -1, state, [])
LossCredit(q, history, next_state) ==
    LET last == history[Len(history)]
    IN  update_q(q, last[1], last[2], REWARD_LOSS, next_state, <<>>)

\* a win that forgets to count the game
Won_GameNotCounted(s) == [s EXCEPT !.wins = @ + 1]

\* self.stats["wins"] += 1; self.stats["games"] += 1
Won(s) == [s EXCEPT !.wins = @ + 1, !.games = @ + 1]

\* self.stats["draws"] += 1; self.stats["games"] += 1
Drew(s) == [s EXCEPT !.draws = @ + 1, !.games = @ + 1]

\* self.stats["games"] += 1
Lost(s) == [s EXCEPT !.games = @ + 1]

\* the decay without its floor
Decayed_NoFloor(eps) == Times(EPSILON_DECAY, eps)

\* max(MIN_EPSILON, EPSILON * EPSILON_DECAY)
Decayed(eps) == Max(MIN_EPSILON, Times(EPSILON_DECAY, eps))

\* a save that is due by the count of this run's episodes
SaveDue_ThisRun(s) == started % SAVE_INTERVAL = 0

\* self.stats["games"] % SAVE_INTERVAL == 0
SaveDue(s) == s.games % SAVE_INTERVAL = 0

\* the tail of play_one_game after the loop, then loop's root.after(10, self.loop)
EndEpisode(q, s, how) ==
    /\ EPSILON' = Decayed(EPSILON)
    /\ q_table' = q
    /\ stats' = s
    /\ IF SaveDue(s)
       THEN q_file' = save_json(q) /\ stats_file' = save_json(s)
       ELSE UNCHANGED <<q_file, stats_file>>
    /\ stats_label' = StatsText(s, EPSILON')
    /\ stack' = Pop
    /\ after' = after + 1
    /\ ev' = how
    /\ UNCHANGED <<running, status_label, started, env>>

\* the agent's turn: choose, place, record, then root.update()
AgentTurn ==
    /\ stack # <<>> /\ Top.pc = "agent"
    /\ \E action \in choose_action(board, q_table, TRUE, EPSILON, rng) :
         IF action = None
         THEN /\ EndEpisode(q_table, stats, "abort")
              /\ UNCHANGED <<board, buttons>>
         ELSE /\ board' = [board EXCEPT ![action] = "X"]
              /\ buttons' = [buttons EXCEPT ![action] = "X"]
              /\ stack' = SetTop([Top EXCEPT
                     !.pc = "updateA",
                     !.history = Append(@, <<get_state(board), action>>)])
              /\ ev' = "agent"
              /\ UNCHANGED <<q_table, stats, running, EPSILON, q_file, stats_file,
                             status_label, stats_label, after, started, env>>

\* root.update() has returned after the agent's move: win and draw checks,
\* then the opponent's move up to its root.update()
AfterAgentMove ==
    /\ stack # <<>> /\ Top.pc = "updateA"
    /\ IF check_win(board, "X")
       THEN /\ EndEpisode(WinCredit(q_table, Top.history, get_state(board)),
                          Won(stats), "win")
            /\ UNCHANGED <<board, buttons>>
       ELSE IF is_draw(board)
       THEN /\ EndEpisode(DrawCredit(q_table, Top.history, get_state(board)),
                          Drew(stats), "draw")
            /\ UNCHANGED <<board, buttons>>
       ELSE \E m \in computer_move(board, "O", "X", rng) :
              IF m.ret = None
              THEN /\ EndEpisode(q_table, stats, "abort")
                   /\ board' = m.board
                   /\ UNCHANGED buttons
              ELSE /\ board' = [m.board EXCEPT ![m.ret] = "O"]
                   /\ buttons' = [buttons EXCEPT ![m.ret] = "O"]
                   /\ stack' = SetTop([Top EXCEPT !.pc = "updateC", !.opp = @ + 1])
                   /\ ev' = "computer"
                   /\ UNCHANGED <<q_table, stats, running, EPSILON, q_file,
                                  stats_file, status_label, stats_label, after,
                                  started, env>>

\* root.update() has returned after the opponent's move: loss and draw checks,
\* then back to the head of the loop
AfterComputerMove ==
    /\ stack # <<>> /\ Top.pc = "updateC"
    /\ IF check_win(board, "O")
       THEN /\ EndEpisode(LossCredit(q_table, Top.history, get_state(board)),
                          Lost(stats), "loss")
            /\ UNCHANGED <<board, buttons>>
       ELSE IF is_draw(board)
       THEN /\ EndEpisode(DrawCredit(q_table, Top.history, get_state(board)),
                          Drew(stats), "draw")
            /\ UNCHANGED <<board, buttons>>
       ELSE /\ stack' = SetTop([Top EXCEPT !.pc = "agent"])
            /\ ev' = "continue"
            /\ UNCHANGED <<board, buttons, q_table, stats, running, EPSILON, q_file,
                           stats_file, status_label, stats_label, after, started, env>>

\* ---------------------------------------------------------------- handlers
\* start_training without its early return
StartTraining_Unguarded ==
    /\ Pumping
    /\ ev' = "start"
    /\ running' = TRUE
    /\ status_label' = "Training vs Computer..."
    /\ BeginEpisode
    /\ UNCHANGED <<q_table, stats, EPSILON, q_file, stats_file, stats_label,
                   after, env>>

\* Trainer.start_training, the Start button's command
StartTraining ==
    /\ Pumping
    /\ ev' = "start"
    /\ IF running
       THEN UNCHANGED <<board, buttons, q_table, stats, running, EPSILON, q_file,
                        stats_file, status_label, stats_label, stack, after, started, env>>
       ELSE /\ running' = TRUE
            /\ status_label' = "Training vs Computer..."
            /\ loop(TRUE)
            /\ UNCHANGED <<q_table, stats, EPSILON, q_file, stats_file,
                           stats_label, after, env>>

\* Trainer.stop_training, the Stop button's command
StopTraining ==
    /\ Pumping
    /\ ev' = "stop"
    /\ running' = FALSE
    /\ q_file' = save_json(q_table)
    /\ stats_file' = save_json(stats)
    /\ status_label' = "Paused. Q-table and stats saved."
    /\ UNCHANGED <<board, buttons, q_table, stats, EPSILON, stats_label, stack,
                   after, started, env>>

\* a callback scheduled by root.after(10, self.loop) fires
LoopCallback ==
    /\ Pumping
    /\ after > 0
    /\ after' = after - 1
    /\ ev' = "loop"
    /\ loop(running)
    /\ UNCHANGED <<q_table, stats, running, EPSILON, q_file, stats_file,
                   status_label, stats_label, env>>

Next ==
    \/ StartTraining
    \/ StopTraining
    \/ LoopCallback
    \/ AgentTurn
    \/ AfterAgentMove
    \/ AfterComputerMove

Spec == Init /\ [][Next]_vars
SpecDeep == InitDeep /\ [][Next]_vars
SpecLate == InitLate /\ [][Next]_vars

\* ---------------------------------------------------------------- sessions
\* The window is closed while root.mainloop() is idle and the program is run
\* again: the module constants are re-evaluated, TicTacToeGUI.__init__ and
\* Trainer.__init__ run anew on the files the last process left, and the
\* callbacks that were pending are gone with it.
Restart ==
    /\ stack = <<>>
    /\ ev' = "restart"
    /\ q_table' = load_json(q_file, EmptyTable)
    /\ stats' = load_json(stats_file, DefaultStats)
    /\ running' = FALSE
    /\ EPSILON' = EPSILON_INIT
    /\ board' = <<>>
    /\ buttons' = [i \in Cells |-> ""]
    /\ status_label' = "Press Start to train vs computer."
    /\ stats_label' = StatsText(stats', EPSILON_INIT)
    /\ after' = 0
    /\ UNCHANGED <<q_file, stats_file, stack, started, env>>

NextSessions ==
    \/ Next
    \/ Restart

SpecSessions == Init /\ [][NextSessions]_vars

\* ---------------------------------------------------------------- helpers alone
\* computer_move called directly on any board, for either mark
InitMove ==
    /\ board \in [Cells -> Marks]
    /\ buttons = [i \in Cells |-> ""]
    /\ probe = NoCall
    /\ limit = 0
    /\ rng = {Lowest, Middle}
    /\ q_file = Missing
    /\ stats_file = Missing
    /\ q_table = EmptyTable
    /\ stats = DefaultStats
    /\ running = FALSE
    /\ EPSILON = EPSILON_INIT
    /\ status_label = "Press Start to train vs computer."
    /\ stats_label = StatsText(DefaultStats, EPSILON_INIT)
    /\ stack = <<>>
    /\ after = 0
    /\ started = 0
    /\ ev = "init"

CallComputerMove ==
    /\ probe = NoCall
    /\ \E symbol \in {"X", "O"} :
         LET player_symbol == IF symbol = "X" THEN "O" ELSE "X"
         IN  \E m \in computer_move(board, symbol, player_symbol, rng) :
                 /\ probe' = [symbol |-> symbol, player_symbol |-> player_symbol,
                              before |-> board, ret |-> m.ret, via |-> m.via]
                 /\ board' = m.board
    /\ ev' = "computer_move"
    /\ UNCHANGED <<buttons, q_table, stats, running, EPSILON, q_file, stats_file,
                   status_label, stats_label, stack, after, started, limit, rng>>

SpecMove == InitMove /\ [][CallComputerMove]_vars

\* the table a player may hold about the actions of one state: no entry;
\* equal positive entries on the diagonal; negative entries, an entry of 0
\* and missing entries side by side; entries that are all different
TablesFor(b) ==
    LET state == get_state(b)
        valid == {a \in Cells : b[a] = "_"}
        table(cells, value(_)) ==
            [key \in {Key(state, a) : a \in valid \cap cells} |->
                value(CHOOSE a \in valid \cap cells : Key(state, a) = key)]
        tenth == Unit \div 10
    IN  { EmptyTable,
          table({0, 4, 8}, LAMBDA a : 3 * tenth),
          table({0, 1, 2, 3, 5}, LAMBDA a : IF a = 5 THEN 0 ELSE -3 * tenth),
          table(Cells, LAMBDA a : (a - 4) * tenth) }

\* choose_action called directly on any board, with any of these tables
InitChoose ==
    /\ board \in [Cells -> Marks]
    /\ q_table \in TablesFor(board)
    /\ buttons = [i \in Cells |-> ""]
    /\ probe = NoCall
    /\ limit = 0
    /\ rng = AllDraws
    /\ q_file = Missing
    /\ stats_file = Missing
    /\ stats = DefaultStats
    /\ running = FALSE
    /\ EPSILON = EPSILON_INIT
    /\ status_label = "Press Start to train vs computer."
    /\ stats_label = StatsText(DefaultStats, EPSILON_INIT)
    /\ stack = <<>>
    /\ after = 0
    /\ started = 0
    /\ ev = "init"

CallChooseAction ==
    /\ probe = NoCall
    /\ \E explore \in BOOLEAN, u \in RandomUnit :
         \E action \in choose_action_at(board, q_table, explore, EPSILON, u, rng) :
             probe' = [board |-> board, q |-> q_table, explore |-> explore,
                       u |-> u, ret |-> action]
    /\ ev' = "choose_action"
    /\ UNCHANGED <<board, buttons, q_table, stats, running, EPSILON, q_file,
                   stats_file, status_label, stats_label, stack, after, started,
                   limit, rng>>

SpecChoose == InitChoose /\ [][CallChooseAction]_vars

TypeOK ==
    /\ running \in BOOLEAN
    /\ after \in 0..limit
    /\ started \in 0..limit
    /\ Len(stack) <= limit
    /\ \A k \in DOMAIN q_table : q_table[k] \in (-Unit)..Unit

\* ---------------------------------------------------------------- properties
Count(b, mark) == Cardinality({i \in DOMAIN b : b[i] = mark})
EpisodeBegins == Len(stack') > Len(stack)
EpisodeEnds == Len(stack') < Len(stack)
Handlers == {"start", "stop", "loop"}

\* C1: at most one episode is in progress at any time: while a play_one_game
\* call is on the stack no handler runs and no second play_one_game begins.
C1_OneEpisodeAtATime ==
    [][/\ Len(stack') <= 1
       /\ stack # <<>> => ev' \notin Handlers]_vars

\* C2: once stop_training has cleared the running flag, only start_training
\* begins an episode: a loop callback that fires while the flag is clear
\* consumes itself and changes nothing else, and stop_training leaves the
\* episode in progress, the board, the table and the counters as they are.
C2_NoEpisodeAfterStop ==
    [][/\ (EpisodeBegins /\ ev' # "start") => running
       /\ (ev' = "loop" /\ ~running) =>
              /\ after' = after - 1
              /\ UNCHANGED <<board, buttons, q_table, stats, running, EPSILON,
                             q_file, stats_file, stack, started>>
       /\ ev' = "stop" =>
              /\ ~running'
              /\ UNCHANGED <<board, q_table, stats, stack, after, started>>]_vars

\* a callback scheduled before the stop has fired after it, with no episode begun
C2_Witness ==
    /\ ev = "loop" /\ ~running /\ stack = <<>>
    /\ started = 1 /\ after = 0
    /\ status_label = "Paused. Q-table and stats saved."

\* C3: whenever training is stopped and no episode is in progress, the files
\* hold the in-memory table and counters.
C3_StoppedIsFlushed ==
    (~running /\ stack = <<>>) =>
        /\ load_json(q_file, EmptyTable) = q_table
        /\ load_json(stats_file, DefaultStats) = stats

\* C4: start_training called while the running flag is set changes nothing:
\* no episode, no scheduled callback, same flag, board, table and counters.
C4_StartIdempotent ==
    [][(ev' = "start" /\ running) =>
          UNCHANGED <<board, buttons, q_table, stats, running, EPSILON, q_file,
                      stats_file, status_label, stats_label, stack, after,
                      started>>]_vars

\* start_training has returned at once, inside an episode's root.update() or
\* between episodes
C4_Witness ==
    /\ ev = "start" /\ running /\ Pumping
    /\ started >= 1

\* C5: on every board the agent's marks outnumber the opponent's by 0 or 1.
C5_AlternatingTurns ==
    Count(board, "X") - Count(board, "O") \in {0, 1}

\* C6: an episode makes at most 5 agent moves and 4 opponent moves before it
\* reaches a terminal outcome.
C6_EpisodeLength ==
    \A k \in 1..Len(stack) :
        /\ Len(stack[k].history) <= 5
        /\ stack[k].opp <= 4

\* C7: the counters never decrease; a play_one_game call that ends adds
\* exactly 1 to games and at most 1 to wins + draws, to wins only on a board
\* the agent has won, to draws only on a full board, to neither when the
\* opponent has won; wins + draws never exceeds games.
C7_CountersMonotone ==
    [][/\ stats'.games >= stats.games
       /\ stats'.wins >= stats.wins
       /\ stats'.draws >= stats.draws
       /\ stats'.wins + stats'.draws <= stats'.games
       /\ IF EpisodeEnds
          THEN /\ stats'.games = stats.games + 1
               /\ (stats'.wins + stats'.draws) - (stats.wins + stats.draws) \in {0, 1}
               /\ stats'.wins > stats.wins => (ev' = "win" /\ check_win(board, "X"))
               /\ stats'.draws > stats.draws => (ev' = "draw" /\ is_draw(board))
               /\ ev' = "loss" => (stats'.wins = stats.wins /\ stats'.draws = stats.draws)
          ELSE stats' = stats]_vars

\* a second episode has ended after a first one was won
C7_Witness ==
    /\ ev \in {"loss", "draw"}
    /\ stats.wins = 1 /\ stats.games = 2

\* the old and the credited estimate of a pair
Old(key) == QGet(q_table, key)
Credited(key, reward) == Old(key) + Times(ALPHA, reward - Old(key))
Keys(history) == {Key(history[k][1], history[k][2]) : k \in 1..Len(history)}
Distance(a, b) == IF a >= b THEN a - b ELSE b - a

\* C8: when an episode ends in an agent win (r = 1) or a draw (r = 0.2) every
\* recorded pair is updated exactly once, to old + ALPHA * (r - old), closer
\* to r than before, and nothing else in the table changes.
C8_TerminalCredit ==
    [][(EpisodeEnds /\ ev' \in {"win", "draw"}) =>
          LET r == IF ev' = "win" THEN REWARD_WIN ELSE REWARD_DRAW
              keys == Keys(Top.history)
          IN  /\ DOMAIN q_table' = DOMAIN q_table \cup keys
              /\ \A key \in DOMAIN q_table' :
                    IF key \in keys
                    THEN /\ q_table'[key] = Credited(key, r)
                         /\ Old(key) # r =>
                                Distance(q_table'[key], r) < Distance(Old(key), r)
                    ELSE q_table'[key] = q_table[key]]_vars

\* C9: when the opponent's move wins, the entry of the agent's last recorded
\* pair becomes old + ALPHA * (-1 - old) and is the only entry that changes;
\* games grows by 1, wins and draws stay.
C9_LossCredit ==
    [][ev' = "loss" =>
          LET last == Top.history[Len(Top.history)]
              key == Key(last[1], last[2])
          IN  /\ DOMAIN q_table' = DOMAIN q_table \cup {key}
              /\ q_table'[key] = Credited(key, REWARD_LOSS)
              /\ q_table'[key] # Old(key)
              /\ \A k \in DOMAIN q_table' \ {key} : q_table'[k] = q_table[k]
              /\ stats' = [stats EXCEPT !.games = @ + 1]]_vars

\* an episode with at least two recorded pairs has been lost, and only the
\* last pair's entry is in the table
C9_Witness ==
    /\ ev = "loss" /\ stack = <<>> /\ started = 1
    /\ DOMAIN q_table = {"XXO___O__:3"}
    /\ q_table["XXO___O__:3"] = -Times(ALPHA, Unit)

\* the cells of `order` that are Empty on b, and the first of them
EmptyOf(b, order) == {k \in 1..Len(order) : b[order[k]] = "_"}
FirstOf(b, order) == order[CHOOSE k \in EmptyOf(b, order) : \A j \in EmptyOf(b, order) : k <= j]
\* the Empty cells of b where placing `mark` gives `mark` a complete line
Completing(b, mark) ==
    {i \in Cells : b[i] = "_" /\ check_win([b EXCEPT ![i] = mark], mark)}

\* C10: computer_move returns None exactly when no cell is Empty; otherwise
\* it returns an Empty cell: one completing a line for its own mark if there
\* is one, else one completing a line for the agent's mark if there is one,
\* else the first Empty of 0, 2, 6, 8, else 4 if Empty, else the first Empty of
\* 1, 3, 5, 7.  The board decides the move and the random fallback is not taken.
C10_OpponentPriority ==
    probe # NoCall =>
        LET b == probe.before
            own == Completing(b, probe.symbol)
            other == Completing(b, probe.player_symbol)
            corners == <<0, 2, 6, 8>>
            sides == <<1, 3, 5, 7>>
        IN  /\ (probe.ret = None) <=> (\A i \in Cells : b[i] # "_")
            /\ probe.ret # None =>
                  /\ probe.ret \in Cells
                  /\ b[probe.ret] = "_"
                  /\ IF own # {} THEN probe.ret \in own
                     ELSE IF other # {} THEN probe.ret \in other
                     ELSE IF EmptyOf(b, corners) # {} THEN probe.ret = FirstOf(b, corners)
                     ELSE IF b[4] = "_" THEN probe.ret = 4
                     ELSE probe.ret = FirstOf(b, sides)
            /\ probe.via # "random"
            /\ Cardinality(computer_move(b, probe.symbol, probe.player_symbol, rng)) = 1

\* on a board where the opponent can win at 2 and would have to block at 5,
\* it has taken the win
C10_Witness ==
    /\ probe # NoCall
    /\ probe.symbol = "O"
    /\ get_state(probe.before) = "OO_XX____"
    /\ probe.ret = 2

\* C11: computer_move leaves the board as it found it on every return path:
\* after the call every cell holds what it held before the call.
C11_BoardRestored ==
    (probe # NoCall /\ ev = "computer_move") =>
        /\ DOMAIN board = DOMAIN probe.before
        /\ \A i \in Cells : board[i] = probe.before[i]

\* the call has found a cell to block at (the winning loop has run through,
\* the blocking loop has returned) and the board is as before
C11_Witness ==
    /\ probe # NoCall /\ ev = "computer_move"
    /\ probe.via = "block"
    /\ get_state(probe.before) = "XX__O____"
    /\ get_state(board) = "XX__O____"
    /\ probe.ret = 2

\* the table's value for an action on a board, missing entries counting as 0
ValueOf(q, b, a) ==
    IF Key(get_state(b), a) \in DOMAIN q THEN q[Key(get_state(b), a)] ELSE 0
ValidOn(b) == {a \in Cells : b[a] = "_"}
BestOn(q, b) ==
    {a \in ValidOn(b) : \A c \in ValidOn(b) : ValueOf(q, b, a) >= ValueOf(q, b, c)}

\* C12: choose_action returns None exactly when no cell is Empty; otherwise
\* it returns an Empty cell and leaves the table and the board as they were.
\* When it does not explore, the action has the greatest table value among
\* the Empty cells and every Empty cell with that value can be returned;
\* when it explores, every Empty cell can be returned.
C12_ChooseAction ==
    (probe # NoCall /\ ev = "choose_action") =>
        LET b == probe.board
            exploring == probe.explore /\ probe.u < EPSILON
            results == choose_action_at(b, probe.q, probe.explore, EPSILON, probe.u, rng)
        IN  /\ (probe.ret = None) <=> (ValidOn(b) = {})
            /\ probe.ret # None => probe.ret \in ValidOn(b)
            /\ board = b
            /\ q_table = probe.q
            /\ (ValidOn(b) # {} /\ ~exploring) =>
                  /\ probe.ret \in BestOn(probe.q, b)
                  /\ results = BestOn(probe.q, b)
            /\ (ValidOn(b) # {} /\ exploring) => results = ValidOn(b)

\* without exploring, the call has returned 8 where 0 and 8 tie for the
\* greatest value and 0 comes first
C12_Witness ==
    /\ probe # NoCall /\ ev = "choose_action"
    /\ ~probe.explore
    /\ get_state(probe.board) = "_XO_O_X__"
    /\ BestOn(probe.q, probe.board) = {0, 8}
    /\ ValueOf(probe.q, probe.board, 0) > 0
    /\ probe.ret = 8

\* C13: the exploration rate never rises and never falls below MIN_EPSILON:
\* the end of a play_one_game call leaves it at most what it was and at least
\* MIN_EPSILON, and no other step (start, stop, callback, a move) changes it.
C13_EpsilonDecays ==
    [][/\ EPSILON' <= EPSILON
       /\ EPSILON' >= MIN_EPSILON
       /\ EpisodeEnds => EPSILON' = Max(MIN_EPSILON, (EPSILON * 99995) \div 100000)
       /\ ~EpisodeEnds => EPSILON' = EPSILON]_vars

\* two episodes have ended late in a session: the first took the rate from
\* one step above the floor onto the floor, the second was held at the floor
C13_Witness ==
    /\ ev \in {"win", "draw", "loss"}
    /\ stats.games = LateStats.games + 2
    /\ EPSILON = MIN_EPSILON
    /\ (MIN_EPSILON * 99995) \div 100000 < MIN_EPSILON

\* C14: the exploration rate is saved with the counters and restored by the
\* next process: a restart never raises it, and a restart on files that hold
\* the current counters starts with the rate the last process ended with.
C14_EpsilonPersisted ==
    [][ev' = "restart" =>
          /\ EPSILON' <= EPSILON
          /\ stats_file = Saved(stats) => EPSILON' = EPSILON]_vars

\* the games played since the counters were last written (or, before the
\* first write, since the process started)
SinceFlush == stats.games - load_json(stats_file, DefaultStats).games

\* C15: when an episode ends with games a multiple of SAVE_INTERVAL, the files
\* hold the whole table and the counters as they are after that episode; so
\* no multiple of SAVE_INTERVAL lies behind the last flush, and the episodes
\* completed since the last flush stay below SAVE_INTERVAL, whether the
\* process loaded no counters, games = SAVE_INTERVAL - 1 or a large count.
C15_SaveCadence ==
    /\ [](SinceFlush \in 0..(stats.games % SAVE_INTERVAL) /\ SinceFlush < SAVE_INTERVAL)
    /\ [][(EpisodeEnds /\ stats'.games % SAVE_INTERVAL = 0) =>
              /\ q_file' = Saved(q_table')
              /\ stats_file' = Saved(stats')]_vars

\* an episode has taken games from SAVE_INTERVAL - 1 to SAVE_INTERVAL while
\* training runs, and the files hold the table it wrote and the new counters
C15_Witness ==
    /\ ev \in {"win", "draw", "loss"} /\ running
    /\ stats.games = SAVE_INTERVAL
    /\ q_table # TrainedTable
    /\ q_file = Saved(q_table)
    /\ stats_file = Saved(stats)

\* C16: an episode takes a draw branch (draws + 1, reward 0.2) only on a
\* board with no Empty cell on which neither mark has a complete line.
C16_GenuineDraw ==
    [][ev' = "draw" =>
          /\ stats'.draws = stats.draws + 1
          /\ \A i \in Cells : board[i] # "_"
          /\ ~check_win(board, "X")
          /\ ~check_win(board, "O")]_vars

\* C17: the defensive exits are never taken: the board has an Empty cell
\* whenever the agent is to move, neither choose_action nor computer_move
\* returns None inside an episode, and the checks after an opponent move never
\* find a full board, so that an episode ends by an agent win or a draw right
\* after an agent move, or by an opponent win right after an opponent move.
C17_DefensiveExitsDead ==
    [][/\ ev' # "abort"
       /\ (stack # <<>> /\ Top.pc = "agent") => \E i \in Cells : board[i] = "_"
       /\ (stack # <<>> /\ Top.pc = "updateC") => \E i \in Cells : board[i] = "_"
       /\ EpisodeEnds =>
              \/ Top.pc = "updateA" /\ ev' \in {"win", "draw"}
              \/ Top.pc = "updateC" /\ ev' = "loss"]_vars

\* how often an episode that ends by `how` with this history writes `key`
Writes(history, how, key) ==
    IF how = "loss"
    THEN IF Key(history[Len(history)][1], history[Len(history)][2]) = key THEN 1 ELSE 0
    ELSE Cardinality({k \in 1..Len(history) : Key(history[k][1], history[k][2]) = key})

RewardOf(how) ==
    IF how = "win" THEN REWARD_WIN ELSE IF how = "draw" THEN REWARD_DRAW ELSE REWARD_LOSS

RECURSIVE Blend(_, _, _)
\* v after n writes of v + ALPHA * (r - v)
Blend(v, r, n) == IF n = 0 THEN v ELSE Blend(v + (3 * (r - v)) \div 10, r, n - 1)

\* C18: every entry of the table lies in [-1, 1]; entries are never removed;
\* the table changes only when an episode ends, and each write then is
\* old + ALPHA * (r - old) with r the reward of the outcome (1, 0.2 or -1) and
\* no bootstrapped term, so that a written value lies between old and r.
C18_ValuesBounded ==
    /\ [](\A key \in DOMAIN q_table : q_table[key] >= -Unit /\ q_table[key] <= Unit)
    /\ [][/\ DOMAIN q_table \subseteq DOMAIN q_table'
           /\ IF EpisodeEnds /\ ev' \in {"win", "draw", "loss"}
              THEN \A key \in DOMAIN q_table' :
                     LET n == Writes(Top.history, ev', key)
                         r == RewardOf(ev')
                         old == QGet(q_table, key)
                     IN  /\ key \notin DOMAIN q_table => n >= 1
                         /\ q_table'[key] = Blend(old, r, n)
                         /\ IF old <= r
                            THEN old <= q_table'[key] /\ q_table'[key] <= r
                            ELSE r <= q_table'[key] /\ q_table'[key] <= old
              ELSE q_table' = q_table]_vars

\* a loaded entry of 0.3 has been credited with a second win and is 0.51,
\* next to an entry the same win created
C18_Witness ==
    /\ ev = "win"
    /\ "XXO___O__:4" \in DOMAIN q_table
    /\ q_table["XXO___O__:4"] = 51 * (Unit \div 100)
    /\ "_________:0" \in DOMAIN q_table
    /\ q_table["_________:0"] = 3 * (Unit \div 10)

\* C19: at most one loop callback is pending at any time, whatever the order
\* of start_training, stop_training and callback firings.
C19_OnePendingCallback == after <= 1

====
